---- MODULE Spec2Model ----
(***************************************************************************)
(* Model of the conversation service of backend/src/backend/main.py and    *)
(* models.py: the conversation and message tables, and the request         *)
(* handlers create_conversation, read_conversation, delete_conversation    *)
(* and create_message (the message exchange), each run by a worker of the  *)
(* server, one statement group at a time, so that requests interleave      *)
(* between their database commits.                                         *)
(***************************************************************************)
EXTENDS Integers, Sequences, FiniteSets, TLC

\* ---------------------------------------------------------------- bounds
MaxConversations == 2         \* conversation ids of the sequential runs
MaxRacingConversations == 1   \* conversation ids of the interleaved runs
MaxMessages == 4              \* rows of table message
MaxClock == 3                 \* readings of the clock

\* ------------------------------------------------------------- vocabulary
Workers == {1, 2}
ConvIds == 1 .. MaxConversations
RacingConvIds == 1 .. MaxRacingConversations
NULL == 0
Roles == {"user", "system"}
Contents == {"hi"}
LLMTexts == {"reply"}
FallbackText == "Sorry, I had an error generating a response."
NotFound == 404
OK == 200
NoRequest == "none"

VARIABLES
    conversations,     \* ids of the rows of table conversation
    messages,          \* rows of table message; a row's id is its index
    clock,             \* datetime.now()
    pc,                \* per worker: position in its handler
    op,                \* per worker: the handler it runs
    conversation_id,   \* per worker: path parameter conversation_id
    message,           \* per worker: request body (MessageCreate)
    user_message,      \* per worker: id of user_message, 0 before line 120
    history_messages,  \* per worker: ids the history query returned, in order
    assistant_text,    \* per worker: assistant_text
    llm_calls,         \* per worker: calls of generate_llm_response by its request
    pre,               \* per worker: table message when its exchange arrived
    response           \* per worker: the HTTP response

vars == << conversations, messages, clock, pc, op, conversation_id, message,
           user_message, history_messages, assistant_text, llm_calls, pre,
           response >>

\* ---------------------------------------------------------------- models.py
\* class Message(SQLModel, table=True); created_at defaults to datetime.now.
Message(cid, role, content) ==
    [conversation_id |-> cid, role |-> role, content |-> content,
     created_at |-> clock]

\* class MessageCreate
MessageCreate(role, content) == [role |-> role, content |-> content]

NoMessage == MessageCreate("", "")

\* class MessageRead: id, role, content, created_at of a stored row.
MessageRead(msgs, i) ==
    [id |-> i, role |-> msgs[i].role, content |-> msgs[i].content,
     created_at |-> msgs[i].created_at]

\* ------------------------------------------------------------- the store
\* Ids of the rows with Message.conversation_id == cid.
ConversationMessageIds(msgs, cid) ==
    {i \in 1 .. Len(msgs) : msgs[i].conversation_id = cid}

\* All orders in which a query may return the rows S.
RECURSIVE Orderings(_)
Orderings(S) ==
    IF S = {} THEN {<< >>}
    ELSE UNION {{<< x >> \o p : p \in Orderings(S \ {x})} : x \in S}

\* Mutant: the query has no order_by.
HistoryQuery_Unordered(msgs, cid) == Orderings(ConversationMessageIds(msgs, cid))

\* Mutant: the query has no where clause.
HistoryQuery_AllConversations(msgs, cid) ==
    {p \in Orderings(1 .. Len(msgs)) :
        \A i, j \in 1 .. Len(p) :
            i < j => msgs[p[i]].created_at <= msgs[p[j]].created_at}

\* select(Message).where(conversation_id == cid).order_by(Message.created_at):
\* every order of the rows that is ascending in created_at; rows with equal
\* created_at come in an order the query does not fix.
HistoryQuery(msgs, cid) ==
    {p \in Orderings(ConversationMessageIds(msgs, cid)) :
        \A i, j \in 1 .. Len(p) :
            i < j => msgs[p[i]].created_at <= msgs[p[j]].created_at}

\* selectinload(Conversation.messages): the relationship has no order_by, so
\* the rows come in an order the query does not fix.
RelationshipLoad(msgs, cid) == Orderings(ConversationMessageIds(msgs, cid))

\* session.add(row); session.commit(); session.refresh(row): the row gets
\* the next id.  The store does not check conversation_id against table
\* conversation (no foreign-key enforcement is switched on), so the commit
\* succeeds whether or not the conversation still exists.
InsertMessage(msgs, row) == Append(msgs, row)

\* session.delete(conversation); session.commit(): the relationship
\* Conversation.messages declares no delete cascade, so the unit of work
\* sets conversation_id of the conversation's messages to NULL and then
\* deletes the conversation row.
DeleteConversationRows(msgs, cid) ==
    [i \in 1 .. Len(msgs) |->
        IF msgs[i].conversation_id = cid
        THEN [msgs[i] EXCEPT !.conversation_id = NULL]
        ELSE msgs[i]]

\* llm_messages = [{"role": m.role, "content": m.content} for m in history]
LLMMessages(msgs, hist) ==
    [k \in 1 .. Len(hist) |->
        [role |-> msgs[hist[k]].role, content |-> msgs[hist[k]].content]]

\* generate_llm_response(llm_messages): a text, or an exception ("error").
GenerateLLMResponse(llm_messages) == LLMTexts \cup {"error"}

\* try/except around the call: the text, or the fixed apology.
AssistantText(outcome) == IF outcome = "error" THEN FallbackText ELSE outcome

Response(status, cid, body) ==
    [status |-> status, conversation |-> cid, messages |-> body]

NoResponse == Response(0, NULL, << >>)

\* Message rows still to be written by the exchanges in flight.
Owed ==
    2 * Cardinality({w \in Workers : pc[w] = "save_user"})
    + Cardinality({w \in Workers : pc[w] \in {"history", "llm", "save_assistant"}})

\* ------------------------------------------------------------------ Init
\* The tables exist and are empty, the workers wait for requests.  Rows a
\* seed inserts are rows the requests below can create.
Init ==
    /\ conversations = {}
    /\ messages = << >>
    /\ clock = 0
    /\ pc = [w \in Workers |-> "idle"]
    /\ op = [w \in Workers |-> NoRequest]
    /\ conversation_id = [w \in Workers |-> NULL]
    /\ message = [w \in Workers |-> NoMessage]
    /\ user_message = [w \in Workers |-> 0]
    /\ history_messages = [w \in Workers |-> << >>]
    /\ assistant_text = [w \in Workers |-> ""]
    /\ llm_calls = [w \in Workers |-> 0]
    /\ pre = [w \in Workers |-> << >>]
    /\ response = [w \in Workers |-> NoResponse]

\* Worker w runs no handler: it has sent its last response.
Free(w) == pc[w] \in {"idle", "done"}

\* A request arrives and its handler goes on to position next: the handler's
\* parameters are bound.
Enter(w, name, cid, body, next) ==
    /\ pc' = [pc EXCEPT ![w] = next]
    /\ op' = [op EXCEPT ![w] = name]
    /\ conversation_id' = [conversation_id EXCEPT ![w] = cid]
    /\ message' = [message EXCEPT ![w] = body]
    /\ pre' = [pre EXCEPT ![w] =
                 IF name = "create_message" THEN messages ELSE << >>]
    /\ response' = [response EXCEPT ![w] = NoResponse]
    /\ llm_calls' = [llm_calls EXCEPT ![w] = 0]
    /\ UNCHANGED << user_message, history_messages, assistant_text >>

\* The handler returns or raises HTTPException: the response is fixed and
\* the handler's parameters and locals are gone.  calls is the number of
\* calls of generate_llm_response the request has made.
Return(w, name, resp, calls) ==
    /\ pc' = [pc EXCEPT ![w] = "done"]
    /\ op' = [op EXCEPT ![w] = name]
    /\ response' = [response EXCEPT ![w] = resp]
    /\ conversation_id' = [conversation_id EXCEPT ![w] = NULL]
    /\ message' = [message EXCEPT ![w] = NoMessage]
    /\ user_message' = [user_message EXCEPT ![w] = 0]
    /\ history_messages' = [history_messages EXCEPT ![w] = << >>]
    /\ assistant_text' = [assistant_text EXCEPT ![w] = ""]
    /\ llm_calls' = [llm_calls EXCEPT ![w] = calls]
    /\ pre' = [pre EXCEPT ![w] = << >>]

\* The clock advances between any two statements and never goes back.  It
\* is read only when a row is created, so the ticks between two reads count
\* as one.
Tick ==
    /\ clock < MaxClock
    /\ \E i \in 1 .. Len(messages) : messages[i].created_at = clock
    /\ clock' = clock + 1
    /\ UNCHANGED << conversations, messages, pc, op, conversation_id, message,
                    user_message, history_messages, assistant_text,
                    llm_calls, pre, response >>

\* ------------------------------------------------- POST /conversations/
\* The store assigns an id no conversation row currently has.
CreateConversation(w, id) ==
    /\ Free(w)
    /\ id \notin conversations
    /\ conversations' = conversations \cup {id}
    /\ Return(w, "create_conversation", Response(OK, id, << >>), 0)
    /\ UNCHANGED << messages, clock >>

\* --------------------------------------- GET /conversations/{conversation_id}
ReadConversation(w, cid) ==
    /\ Free(w)
    /\ IF cid \notin conversations
       THEN Return(w, "read_conversation", Response(NotFound, NULL, << >>), 0)
       ELSE \E p \in RelationshipLoad(messages, cid) :
                Return(w, "read_conversation", Response(OK, cid,
                    [k \in 1 .. Len(p) |-> MessageRead(messages, p[k])]), 0)
    /\ UNCHANGED << conversations, messages, clock >>

\* ------------------------------------ DELETE /conversations/{conversation_id}
\* conversation = session.get(...); 404 if absent.
DeleteConversation_Get(w, cid) ==
    /\ Free(w)
    /\ IF cid \notin conversations
       THEN Return(w, "delete_conversation", Response(NotFound, NULL, << >>), 0)
       ELSE Enter(w, "delete_conversation", cid, NoMessage, "delete")
    /\ UNCHANGED << conversations, messages, clock >>

\* session.delete(conversation); session.commit(); return {"ok": True}
DeleteConversation_Commit(w) ==
    /\ pc[w] = "delete"
    /\ messages' = DeleteConversationRows(messages, conversation_id[w])
    /\ conversations' = conversations \ {conversation_id[w]}
    /\ Return(w, "delete_conversation", Response(OK, NULL, << >>), 0)
    /\ UNCHANGED clock

\* ------------------------- POST /conversations/{conversation_id}/messages/
\* Mutant: the existence check is missing.
CreateMessage_Get_NoCheck(w, cid, body) ==
    /\ Free(w)
    /\ Len(messages) + Owed + 2 <= MaxMessages
    /\ Enter(w, "create_message", cid, body, "save_user")
    /\ UNCHANGED << conversations, messages, clock >>

\* 1. Make sure the conversation exists.
CreateMessage_Get(w, cid, body) ==
    /\ Free(w)
    /\ Len(messages) + Owed + 2 <= MaxMessages
    /\ IF cid \notin conversations
       THEN Return(w, "create_message", Response(NotFound, NULL, << >>), 0)
       ELSE Enter(w, "create_message", cid, body, "save_user")
    /\ UNCHANGED << conversations, messages, clock >>

\* Mutant: the incoming message is stored with role "user" whatever its role.
CreateMessage_SaveUser_FixedRole(w) ==
    /\ pc[w] = "save_user"
    /\ messages' = InsertMessage(messages,
           Message(conversation_id[w], "user", message[w].content))
    /\ user_message' = [user_message EXCEPT ![w] = Len(messages) + 1]
    /\ pc' = [pc EXCEPT ![w] = "history"]
    /\ UNCHANGED << conversations, clock, op, conversation_id, message,
                    history_messages, assistant_text, llm_calls, pre,
                    response >>

\* 2. Save the user message.
CreateMessage_SaveUser(w) ==
    /\ pc[w] = "save_user"
    /\ messages' = InsertMessage(messages,
           Message(conversation_id[w], message[w].role, message[w].content))
    /\ user_message' = [user_message EXCEPT ![w] = Len(messages) + 1]
    /\ pc' = [pc EXCEPT ![w] = "history"]
    /\ UNCHANGED << conversations, clock, op, conversation_id, message,
                    history_messages, assistant_text, llm_calls, pre,
                    response >>

\* 3. Build full conversation history.
CreateMessage_History(w) ==
    /\ pc[w] = "history"
    /\ \E p \in HistoryQuery(messages, conversation_id[w]) :
           history_messages' = [history_messages EXCEPT ![w] = p]
    /\ pc' = [pc EXCEPT ![w] = "llm"]
    /\ UNCHANGED << conversations, messages, clock, op, conversation_id,
                    message, user_message, assistant_text, llm_calls, pre,
                    response >>

\* Mutant: the exception of a failed call is not caught; the request ends
\* with a server error.
CreateMessage_CallLLM_Propagate(w) ==
    /\ pc[w] = "llm"
    /\ \E outcome \in GenerateLLMResponse(LLMMessages(messages, history_messages[w])) :
           IF outcome = "error"
           THEN Return(w, "create_message", Response(500, NULL, << >>),
                       llm_calls[w] + 1)
           ELSE /\ assistant_text' = [assistant_text EXCEPT ![w] = outcome]
                /\ llm_calls' = [llm_calls EXCEPT ![w] = @ + 1]
                /\ pc' = [pc EXCEPT ![w] = "save_assistant"]
                /\ UNCHANGED << op, conversation_id, message, user_message,
                                history_messages, pre, response >>
    /\ UNCHANGED << conversations, messages, clock >>

\* Mutant: a failed call is tried once more.
CreateMessage_CallLLM_Retry(w) ==
    /\ pc[w] = "llm"
    /\ \E first, second \in GenerateLLMResponse(LLMMessages(messages, history_messages[w])) :
           /\ assistant_text' = [assistant_text EXCEPT ![w] =
                  AssistantText(IF first = "error" THEN second ELSE first)]
           /\ llm_calls' = [llm_calls EXCEPT ![w] = IF first = "error" THEN @ + 2 ELSE @ + 1]
    /\ pc' = [pc EXCEPT ![w] = "save_assistant"]
    /\ UNCHANGED << conversations, messages, clock, op, conversation_id,
                    message, user_message, history_messages, pre, response >>

\* 4. Call LLM (but don't crash if it fails).
CreateMessage_CallLLM(w) ==
    /\ pc[w] = "llm"
    /\ \E outcome \in GenerateLLMResponse(LLMMessages(messages, history_messages[w])) :
           assistant_text' = [assistant_text EXCEPT ![w] = AssistantText(outcome)]
    /\ llm_calls' = [llm_calls EXCEPT ![w] = @ + 1]
    /\ pc' = [pc EXCEPT ![w] = "save_assistant"]
    /\ UNCHANGED << conversations, messages, clock, op, conversation_id,
                    message, user_message, history_messages, pre, response >>

\* 5. Save assistant message.  6. Return it.
CreateMessage_SaveAssistant(w) ==
    /\ pc[w] = "save_assistant"
    /\ messages' = InsertMessage(messages,
           Message(conversation_id[w], "assistant", assistant_text[w]))
    /\ Return(w, "create_message", Response(OK, NULL,
           << MessageRead(messages', Len(messages) + 1) >>), llm_calls[w])
    /\ UNCHANGED << conversations, clock >>

\* Steps 2 to 6 of the exchange worker w is in.
CreateMessage_Step(w) ==
    \/ CreateMessage_SaveUser(w)
    \/ CreateMessage_History(w)
    \/ CreateMessage_CallLLM(w)
    \/ CreateMessage_SaveAssistant(w)

\* ------------------------------------------------------- specifications
\* Requests race: two workers run create, delete and exchange requests,
\* interleaved between their statements.
Next ==
    \/ Tick
    \/ \E w \in Workers :
          \/ \E id \in RacingConvIds : CreateConversation(w, id)
          \/ \E cid \in RacingConvIds : DeleteConversation_Get(w, cid)
          \/ DeleteConversation_Commit(w)
          \/ \E cid \in RacingConvIds, content \in Contents :
                 CreateMessage_Get(w, cid, MessageCreate("user", content))
          \/ CreateMessage_Step(w)

Spec == Init /\ [][Next]_vars

\* Requests run one after the other: one worker, every handler.
SeqNext ==
    \/ Tick
    \/ \E id \in ConvIds : CreateConversation(1, id)
    \/ \E cid \in ConvIds : ReadConversation(1, cid)
    \/ \E cid \in ConvIds : DeleteConversation_Get(1, cid)
    \/ DeleteConversation_Commit(1)
    \/ \E cid \in ConvIds, role \in Roles, content \in Contents :
           CreateMessage_Get(1, cid, MessageCreate(role, content))
    \/ CreateMessage_Step(1)

SeqSpec == Init /\ [][SeqNext]_vars

\* Exchanges on different conversations race: worker w creates conversation
\* w and runs its exchanges on it.
PairNext ==
    \/ Tick
    \/ \E w \in Workers :
          \/ CreateConversation(w, w)
          \/ \E role \in Roles, content \in Contents :
                 CreateMessage_Get(w, w, MessageCreate(role, content))
          \/ CreateMessage_Step(w)

PairSpec == Init /\ [][PairNext]_vars

\* ---------------------------------------------------------------- claims
\* C1: an exchange on a conversation id that is not in the store reports
\* NotFound (404), leaves the conversations and the messages of the store as
\* they were, and does not call the Model Client.
C1_ExchangeOnMissingConversation ==
    /\ [][\A w \in Workers, cid \in RacingConvIds, content \in Contents :
            (/\ cid \notin conversations
             /\ CreateMessage_Get(w, cid, MessageCreate("user", content)))
            => /\ pc'[w] = "done"
               /\ response'[w] = Response(NotFound, NULL, << >>)
               /\ conversations' = conversations
               /\ messages' = messages
               /\ llm_calls'[w] = 0]_vars
    /\ [](\A w \in Workers :
            (op[w] = "create_message" /\ response[w].status = NotFound)
            => pc[w] = "done" /\ llm_calls[w] = 0)

\* An exchange was refused with 404 while the store holds messages.
C1_Witness ==
    \E w \in Workers :
        /\ pc[w] = "done"
        /\ op[w] = "create_message"
        /\ response[w].status = NotFound
        /\ messages # << >>

\* C2: when the call of the Model Client fails during an exchange on an
\* existing conversation, the exchange reports no error: it returns a message
\* with role "assistant" and the fixed fallback text, that message is a row of
\* the conversation, and the incoming message written before the call is
\* still a row of the conversation.
C2_FailedCallFallsBack ==
    /\ [](\A w \in Workers :
            /\ (op[w] = "create_message" /\ pc[w] = "done")
               => response[w].status \in {OK, NotFound}
            /\ pc[w] = "save_assistant"
               => assistant_text[w] \in LLMTexts \cup {FallbackText})
    /\ [][\A w \in Workers :
            /\ (pc[w] = "llm" /\ pc'[w] # pc[w]) => pc'[w] = "save_assistant"
            /\ (pc[w] = "save_assistant" /\ pc'[w] # pc[w]
                   /\ assistant_text[w] = FallbackText)
               => LET cid == conversation_id[w]
                      a == Len(messages')
                      u == user_message[w]
                  IN  /\ pc'[w] = "done"
                      /\ response'[w].status = OK
                      /\ response'[w].messages =
                            << [id |-> a, role |-> "assistant",
                                content |-> FallbackText,
                                created_at |-> messages'[a].created_at] >>
                      /\ cid \in conversations'
                      /\ a \in ConversationMessageIds(messages', cid)
                      /\ messages'[a].role = "assistant"
                      /\ messages'[a].content = FallbackText
                      /\ u \in ConversationMessageIds(messages', cid)
                      /\ u < a
                      /\ messages'[u].role = message[w].role
                      /\ messages'[u].content = message[w].content]_vars

\* An exchange has returned the fallback text.
C2_Witness ==
    \E w \in Workers :
        /\ pc[w] = "done" /\ op[w] = "create_message"
        /\ response[w].status = OK
        /\ Len(response[w].messages) = 1
        /\ response[w].messages[1].role = "assistant"
        /\ response[w].messages[1].content = FallbackText
        /\ messages[response[w].messages[1].id].content = FallbackText

\* C3: one exchange on an existing conversation, run without interleaving
\* with other operations, appends exactly two messages to the conversation:
\* the incoming message with the given role and content, then one with role
\* "assistant", the first created no later than the second; no other row of
\* table message changes, and the message returned is the assistant row.
C3_ExchangeAppendsTwo ==
    [][\A w \in Workers :
          (pc[w] = "save_assistant" /\ pc'[w] # pc[w])
          => LET cid == conversation_id[w]
                 n == Len(pre[w])
             IN  /\ Len(messages') = n + 2
                 /\ SubSeq(messages', 1, n) = pre[w]
                 /\ messages'[n + 1] =
                       [conversation_id |-> cid, role |-> message[w].role,
                        content |-> message[w].content,
                        created_at |-> messages'[n + 1].created_at]
                 /\ messages'[n + 2] =
                       [conversation_id |-> cid, role |-> "assistant",
                        content |-> assistant_text[w],
                        created_at |-> messages'[n + 2].created_at]
                 /\ messages'[n + 1].created_at <= messages'[n + 2].created_at
                 /\ conversations' = conversations
                 /\ response'[w] =
                       Response(OK, NULL, << MessageRead(messages', n + 2) >>)]_vars

\* A second exchange has returned, its incoming message had role "system",
\* and a row of another conversation is in the table.
C3_Witness ==
    \E w \in Workers :
        /\ pc[w] = "done" /\ op[w] = "create_message"
        /\ response[w].status = OK
        /\ response[w].messages[1].id = 4
        /\ messages[3].role = "system"
        /\ messages[1].conversation_id \in conversations
        /\ messages[1].conversation_id # messages[4].conversation_id

\* C4: a successful delete of a conversation removes its messages: no row
\* that belonged to the conversation is in table message afterwards.
C4_DeleteRemovesMessages ==
    [][\A w \in Workers :
          DeleteConversation_Commit(w)
          => \A i \in 1 .. Len(messages) :
                messages[i].conversation_id = conversation_id[w]
                => ~ \E j \in 1 .. Len(messages') :
                        MessageRead(messages', j) = MessageRead(messages, i)]_vars

\* C5: the history passed to the Model Client holds every message stored for
\* the conversation (none left out, none twice), among them the user message
\* this exchange wrote, in ascending order of created_at.
C5_FullOrderedHistory ==
    \A w \in Workers :
        pc[w] = "llm"
        => LET h == history_messages[w]
               ids == ConversationMessageIds(messages, conversation_id[w])
           IN  /\ {h[k] : k \in 1 .. Len(h)} = ids
               /\ Len(h) = Cardinality(ids)
               /\ Len(LLMMessages(messages, h)) = Cardinality(ids)
               /\ \E k \in 1 .. Len(h) : h[k] = user_message[w]
               /\ \A i, j \in 1 .. Len(h) :
                      i < j => messages[h[i]].created_at <= messages[h[j]].created_at

\* The Model Client is about to be called with a history of three messages
\* created at three different times.
C5_Witness ==
    \E w \in Workers :
        /\ pc[w] = "llm"
        /\ Len(history_messages[w]) = 3
        /\ \A i, j \in 1 .. 3 :
               i < j => messages[history_messages[w][i]].created_at
                          < messages[history_messages[w][j]].created_at

\* With requests run one after the other, rows 2k-1 and 2k of table message
\* are the incoming and the assistant message of the k-th exchange.
SameExchange(i, j) == i % 2 = 1 /\ j = i + 1

UserBeforeAssistant(ids) ==
    \A a, b \in 1 .. Len(ids) : SameExchange(ids[a], ids[b]) => a < b

\* C6: in every read of a conversation's history (the history built for the
\* Model Client, the messages GET /conversations/{id} returns) the user
\* message of an exchange comes before the assistant message of the same
\* exchange, also when both have the same created_at.
C6_UserBeforeAssistant ==
    \A w \in Workers :
        /\ UserBeforeAssistant(history_messages[w])
        /\ UserBeforeAssistant(
               [k \in 1 .. Len(response[w].messages) |-> response[w].messages[k].id])

\* C7: GET /conversations/{id} after n exchanges run one after the other on
\* a conversation returns its 2n messages, incoming and assistant messages
\* alternating, in the order the exchanges wrote them.
C7_ReadReturnsChronological ==
    \A w \in Workers :
        (op[w] = "read_conversation" /\ pc[w] = "done" /\ response[w].status = OK)
        => LET body == response[w].messages
               ids == ConversationMessageIds(messages, response[w].conversation)
           IN  /\ Len(body) = Cardinality(ids)
               /\ {body[k].id : k \in 1 .. Len(body)} = ids
               /\ Len(body) % 2 = 0
               /\ \A k \in 1 .. Len(body) :
                      IF k % 2 = 1 THEN body[k].role \in Roles
                                   ELSE body[k].role = "assistant"
               /\ \A k, l \in 1 .. Len(body) :
                      k < l => /\ body[k].id < body[l].id
                               /\ body[k].created_at <= body[l].created_at

\* C8: an exchange that passed the existence check calls the Model Client
\* exactly once, whether the call succeeds or fails, after the user message
\* is committed and before the assistant message is.
C8_OneModelCall ==
    /\ [](\A w \in Workers :
            op[w] = "create_message"
            => /\ pc[w] = "save_user"
                  => llm_calls[w] = 0 /\ user_message[w] = 0
               /\ pc[w] \in {"history", "llm"}
                  => llm_calls[w] = 0 /\ user_message[w] \in 1 .. Len(messages)
               /\ pc[w] = "save_assistant" => llm_calls[w] = 1
               /\ pc[w] = "done"
                  => llm_calls[w] = IF response[w].status = NotFound THEN 0 ELSE 1)
    /\ [][\A w \in Workers :
            /\ llm_calls'[w] > llm_calls[w]
               => /\ pc[w] = "llm" /\ pc'[w] = "save_assistant"
                  /\ user_message[w] \in 1 .. Len(messages)
                  /\ messages' = messages
            /\ (pc[w] = "save_assistant" /\ pc'[w] # pc[w])
               => /\ pc'[w] = "done"
                  /\ response'[w].status = OK
                  /\ Len(messages') = Len(messages) + 1
                  /\ messages'[Len(messages')].role = "assistant"]_vars

\* An exchange whose call of the Model Client failed has returned.
C8_Witness ==
    \E w \in Workers :
        /\ pc[w] = "done"
        /\ op[w] = "create_message"
        /\ response[w].status = OK
        /\ response[w].messages[1].content = FallbackText
        /\ llm_calls[w] = 1

\* The (role, content) pairs of the messages of conversation cid, by id.
ConversationTurns(msgs, cid) ==
    LET rows == SelectSeq(msgs, LAMBDA m : m.conversation_id = cid)
    IN  [k \in 1 .. Len(rows) |-> MessageCreate(rows[k].role, rows[k].content)]

\* C9: an exchange on one conversation that races with an exchange on another
\* conversation has the outcome it has when it runs alone: the conversation's
\* messages are those it had plus the incoming and the assistant message, the
\* history passed to the Model Client is the conversation's messages (the
\* incoming one included) in ascending order of created_at, and the message
\* returned is the assistant message; ids and timestamps are the store's.
C9_OtherConversationsDoNotInterfere ==
    [][\A w \in Workers :
          (pc[w] = "save_assistant" /\ pc'[w] # pc[w])
          => LET cid == conversation_id[w]
                 h == history_messages[w]
                 a == Len(messages')
             IN  /\ ConversationTurns(messages', cid) =
                       ConversationTurns(pre[w], cid)
                       \o << message[w], MessageCreate("assistant", assistant_text[w]) >>
                 /\ {h[k] : k \in 1 .. Len(h)} =
                       ConversationMessageIds(pre[w], cid) \cup {user_message[w]}
                 /\ Len(h) = Cardinality(ConversationMessageIds(pre[w], cid)) + 1
                 /\ \A i, j \in 1 .. Len(h) :
                        i < j => messages[h[i]].created_at <= messages[h[j]].created_at
                 /\ messages'[a].conversation_id = cid
                 /\ response'[w] = Response(OK, NULL,
                        << [id |-> a, role |-> "assistant",
                            content |-> assistant_text[w],
                            created_at |-> messages'[a].created_at] >>)]_vars

\* An exchange has returned whose two messages have a message of the other
\* conversation between them, written by an exchange still under way.
C9_Witness ==
    \E w, v \in Workers :
        /\ w # v
        /\ pc[w] = "done" /\ op[w] = "create_message"
        /\ response[w].status = OK
        /\ pc[v] \in {"history", "llm", "save_assistant"}
        /\ user_message[v] = response[w].messages[1].id - 1
        /\ messages[user_message[v]].conversation_id = v
        /\ Len(ConversationTurns(messages, w)) = 2

\* C10: every persisted message has a conversation_id that refers to a
\* conversation in the store, under every interleaving of create, delete and
\* exchange requests.
C10_EveryMessageHasConversation ==
    \A i \in 1 .. Len(messages) : messages[i].conversation_id \in conversations

====
